---- MODULE Spec2Model ----
(***************************************************************************)
(* A model of the retrieval core of MineAgents:                            *)
(*   src/py/agent/mineagents/knowledge/index.py   (_tokenize, HowToIndex)  *)
(*                                                                         *)
(* Representation.                                                         *)
(*   - A text is a sequence of characters; a character is a one-character  *)
(*     string (the four non-ASCII letters that WORD_RE accepts under       *)
(*     re.IGNORECASE are named by their code point, e.g. "U+017F").        *)
(*   - A token is a sequence of characters.                                *)
(*   - A float is modelled by the real number it approximates.  Weights    *)
(*     and dot products are exact rationals [n, d] in lowest terms.        *)
(*     math.log is the table LnTenths (natural logarithms in tenths).      *)
(*     Norms and scores are square roots of rationals; they are held       *)
(*     through the strictly increasing map  x |-> x * |x|  ("signed        *)
(*     square"), which keeps them rational and preserves order, equality,  *)
(*     0 and 1, products and quotients.                                    *)
(*   - KnowledgeEntry.source and .metadata are never read by the index     *)
(*     and are left out of an entry.                                       *)
(*   - input and output hold the argument and the outcome of a call of a   *)
(*     module-level function (_tokenize, load_recipe_file, ...); they stay *)
(*     at NoInput and Pending in the specification of the index.           *)
(*   - recipes is the recipe list of the RecipeLibrary that owns the index *)
(*     (recipes.py); it is empty where the index is used on its own.       *)
(***************************************************************************)
EXTENDS Integers, Sequences, FiniteSets, TLC

VARIABLES entries, doc_freq, embeddings, norms, built, result, raised, last,
          input, output, recipes

vars == <<entries, doc_freq, embeddings, norms, built, result, raised, last,
          input, output, recipes>>

\* The state of one HowToIndex with the record of its last call.
index_vars == <<entries, doc_freq, embeddings, norms, built, result, raised, last>>

\* The argument and the outcome of a call of one of the module-level functions.
call_vars == <<input, output>>

(***************************************************************************)
(* Bounds of the model.                                                    *)
(***************************************************************************)
MaxEntries == 3
MaxTopK == 3
MaxNegTopK == 1
MaxTextLen == 3
MaxFiles == 2
MaxRecipes == 3

(***************************************************************************)
(* Characters.                                                             *)
(***************************************************************************)
UpperLetters == <<"A","B","C","D","E","F","G","H","I","J","K","L","M",
                  "N","O","P","Q","R","S","T","U","V","W","X","Y","Z">>
LowerLetters == <<"a","b","c","d","e","f","g","h","i","j","k","l","m",
                  "n","o","p","q","r","s","t","u","v","w","x","y","z">>
Digits == {"0","1","2","3","4","5","6","7","8","9"}

Range(s) == {s[i] : i \in DOMAIN s}

\* f itself, evaluated once as a table rather than on each application.
Tabulated(f) == f @@ <<>>

\* The four non-ASCII letters that [a-z] matches under re.IGNORECASE on str:
\* U+0130 (I with dot above), U+0131 (dotless i), U+017F (long s), U+212A (Kelvin sign).
FoldedLetters == {"U+0130", "U+0131", "U+017F", "U+212A"}

\* WORD_RE = re.compile(r"[a-z0-9]+", re.IGNORECASE): the characters of a match.
WordChars == Range(UpperLetters) \cup Range(LowerLetters) \cup Digits \cup FoldedLetters

\* str.lower() of one character, as a sequence of characters.
LowerOf ==
    [ch \in Range(UpperLetters) |->
        LowerLetters[CHOOSE i \in DOMAIN UpperLetters : UpperLetters[i] = ch]]

LowerChar(ch) ==
    IF ch \in DOMAIN LowerOf THEN <<LowerOf[ch]>>
    ELSE IF ch = "U+212A" THEN <<"k">>
    ELSE IF ch = "U+0130" THEN <<"i", "U+0307">>
    ELSE <<ch>>

RECURSIVE LowerStr(_)
LowerStr(s) == IF s = <<>> THEN <<>> ELSE LowerChar(Head(s)) \o LowerStr(Tail(s))

\* The characters str.strip() removes.
Whitespace == {" ", "\t", "\n", "\r", "U+000B", "U+000C", "U+00A0"}

\* Mutant of IsBlank: "not query", without the strip.
IsEmptyOnly(text) == text = <<>>

\* not query.strip()
IsBlank(text) == \A i \in DOMAIN text : text[i] \in Whitespace

(***************************************************************************)
(* _tokenize: WORD_RE.findall(text), each match lowercased.                *)
(* findall scans left to right and returns the maximal runs of WordChars.  *)
(***************************************************************************)
RECURSIVE FindAll(_, _, _)
FindAll(text, i, run) ==
    IF i > Len(text)
    THEN IF run = <<>> THEN <<>> ELSE <<run>>
    ELSE IF text[i] \in WordChars
         THEN FindAll(text, i + 1, Append(run, text[i]))
         ELSE (IF run = <<>> THEN <<>> ELSE <<run>>) \o FindAll(text, i + 1, <<>>)

Tokenize(text) ==
    LET found == FindAll(text, 1, <<>>)
    IN  [k \in DOMAIN found |-> LowerStr(found[k])]

(***************************************************************************)
(* The texts the operations are called with.                               *)
(***************************************************************************)
Oak == <<"o", "a", "k">>
Iron == <<"i", "r", "o", "n">>
Coal == <<"c", "o", "a", "l">>
Sp == <<" ">>

TextOakOakOak == Oak \o Sp \o Oak \o Sp \o Oak
TextOakOakIron == <<"O", "a", "k">> \o Sp \o Oak \o Sp \o Iron
TextIronCoal == Iron \o <<"-">> \o Coal
TextEmpty == <<>>
TextOakCoalCoal == Oak \o Sp \o Coal \o Sp \o Coal

EntryPool ==
    { [key |-> "oak3", text |-> TextOakOakOak],
      [key |-> "shelter", text |-> TextOakOakIron],
      [key |-> "furnace", text |-> TextIronCoal],
      [key |-> "empty", text |-> TextEmpty] }

QueryPool ==
    { TextEmpty, <<" ", "\t">>, <<"!", "!", "!">>, Oak,
      TextOakOakOak, TextOakOakIron, TextIronCoal, TextOakCoalCoal }

(***************************************************************************)
(* A two-entry corpus of longer texts (entries A and B) and the queries it *)
(* is searched with.                                                       *)
(***************************************************************************)
\* "build a wooden shelter before nightfall using oak planks"
TextShelter ==
    <<"b", "u", "i", "l", "d", " ", "a", " ", "w", "o", "o", "d", "e",
      "n", " ", "s", "h", "e", "l", "t", "e", "r", " ", "b", "e", "f",
      "o", "r", "e", " ", "n", "i", "g", "h", "t", "f", "a", "l", "l",
      " ", "u", "s", "i", "n", "g", " ", "o", "a", "k", " ", "p", "l",
      "a", "n", "k", "s">>

\* "smelt iron ore into ingots using a furnace and coal"
TextFurnace ==
    <<"s", "m", "e", "l", "t", " ", "i", "r", "o", "n", " ", "o", "r",
      "e", " ", "i", "n", "t", "o", " ", "i", "n", "g", "o", "t", "s",
      " ", "u", "s", "i", "n", "g", " ", "a", " ", "f", "u", "r", "n",
      "a", "c", "e", " ", "a", "n", "d", " ", "c", "o", "a", "l">>

\* "wooden shelter", "iron ore", "using a", "oak furnace", "gold"
TextWoodenShelter == <<"w", "o", "o", "d", "e", "n", " ", "s", "h", "e", "l", "t", "e",
                     "r">>
TextIronOre == <<"i", "r", "o", "n", " ", "o", "r", "e">>
TextUsingA == <<"u", "s", "i", "n", "g", " ", "a">>
TextOakFurnace == <<"o", "a", "k", " ", "f", "u", "r", "n", "a", "c", "e">>
TextGold == <<"g", "o", "l", "d">>

EntryShelter == [key |-> "A", text |-> TextShelter]
EntryFurnace == [key |-> "B", text |-> TextFurnace]

ShelterPool == {EntryShelter, EntryFurnace}

ShelterQueries ==
    {TextWoodenShelter, TextIronOre, TextUsingA, TextOakFurnace, TextGold, <<" ">>}

(***************************************************************************)
(* recipes.py: Recipe, RecipeStep and Recipe.as_entry.                     *)
(*   A recipe name is a string (it becomes the key of the entry); Chars    *)
(*   gives the characters of the names of the model.  The other text       *)
(*   fields are texts, the list fields sequences of texts.                 *)
(***************************************************************************)
NameChars ==
    [torch |-> <<"t", "o", "r", "c", "h">>,
     furnace |-> <<"f", "u", "r", "n", "a", "c", "e">>]

Chars(name) == NameChars[name]

\* sep.join(chunks)
RECURSIVE Join(_, _)
Join(sep, chunks) ==
    IF chunks = <<>> THEN <<>>
    ELSE IF Len(chunks) = 1 THEN chunks[1]
    ELSE chunks[1] \o sep \o Join(sep, Tail(chunks))

\* lines 47-48: the four chunks of every step, in step order
RECURSIVE StepChunks(_)
StepChunks(steps) ==
    IF steps = <<>> THEN <<>>
    ELSE <<steps[1].title, steps[1].action, steps[1].details, Join(Sp, steps[1].checks)>>
             \o StepChunks(Tail(steps))

\* Recipe.as_entry
AsEntry(recipe) ==
    LET text_chunks ==
            <<Chars(recipe.name), recipe.goal,
              Join(Sp, recipe.tags), Join(Sp, recipe.required_items),
              Join(Sp, recipe.optional_items), Join(Sp, recipe.environment),
              Join(Sp, recipe.hazards), recipe.notes>>
                \o StepChunks(recipe.steps)
    IN  [key |-> recipe.name,
         text |-> Join(<<"\n">>, SelectSeq(text_chunks, LAMBDA chunk : chunk # <<>>))]

\* A recipe with a name and a goal, every other field at its default.
PlainRecipe(name, goal) ==
    [name |-> name, goal |-> goal, steps |-> <<>>, tags |-> <<>>,
     required_items |-> <<>>, optional_items |-> <<>>, environment |-> <<>>,
     hazards |-> <<>>, notes |-> <<>>]

\* Two recipes that share the name "torch", and one named "furnace".
RecipeTorchOak == PlainRecipe("torch", Oak)

RecipeTorchCoal ==
    [PlainRecipe("torch", Coal) EXCEPT
        !.tags = <<Oak>>,
        !.steps = <<[title |-> Iron, action |-> Coal, details |-> Oak, checks |-> <<>>]>>]

RecipeFurnace == [PlainRecipe("furnace", Iron) EXCEPT !.notes = Coal]

RecipePool == {RecipeTorchOak, RecipeTorchCoal, RecipeFurnace}

RecipeLists == UNION {[1..n -> RecipePool] : n \in 0..MaxRecipes}

\* lines 165 and 175: the entries of a list of recipes
EntriesOf(rs) == [i \in DOMAIN rs |-> AsEntry(rs[i])]

LibraryEntryLists == {EntriesOf(rs) : rs \in RecipeLists}

LibraryQueries == {Oak, Coal, Chars("torch"), TextIronCoal, <<" ">>}

(***************************************************************************)
(* planner/rag.py: the search query of retrieve_planning_knowledge.        *)
(*   None and "" are both the empty text (the code tests them with "or"    *)
(*   and "if part").  A snapshot is the sequence of its items [key, value] *)
(*   in dict order; the values of the model are strings.                   *)
(***************************************************************************)
MaxFields == 6

\* _snapshot_hints for string values: "key: value" of the first max_fields items
SnapshotHints(snapshot, max_fields) ==
    Join(<<";", " ">>,
         [i \in 1..(IF Len(snapshot) < max_fields THEN Len(snapshot) ELSE max_fields) |->
             snapshot[i].key \o <<":", " ">> \o snapshot[i].value])

\* line 69: query or "\n".join(part for part in [goal, context, snapshot_hint] if part)
SearchQuery(goal, context, snapshot, query) ==
    IF query # <<>> THEN query
    ELSE Join(<<"\n">>,
              SelectSeq(<<goal, context, SnapshotHints(snapshot, MaxFields)>>,
                        LAMBDA part : part # <<>>))

\* The arguments retrieve_planning_knowledge is called with.
RetrieveCalls ==
    { [goal |-> Oak, context |-> <<>>, snapshot |-> <<>>, query |-> <<>>],
      [goal |-> Iron, context |-> Coal,
       snapshot |-> <<[key |-> Chars("torch"), value |-> Oak]>>, query |-> <<>>],
      [goal |-> Iron, context |-> <<>>, snapshot |-> <<>>, query |-> Coal],
      [goal |-> <<>>, context |-> <<>>, snapshot |-> <<>>, query |-> <<>>] }

(***************************************************************************)
(* scripts/evaluate_rag.py: normalize_prompt and the cases of run_case.    *)
(***************************************************************************)
\* str.strip()
RECURSIVE LStrip(_)
LStrip(text) ==
    IF text # <<>> /\ Head(text) \in Whitespace THEN LStrip(Tail(text)) ELSE text

RECURSIVE RStrip(_)
RStrip(text) ==
    IF text # <<>> /\ text[Len(text)] \in Whitespace
    THEN RStrip(SubSeq(text, 1, Len(text) - 1)) ELSE text

Strip(text) == RStrip(LStrip(text))

\* text.split("\n"): cur is the line being read
RECURSIVE SplitLines(_, _)
SplitLines(text, cur) ==
    IF text = <<>> THEN <<cur>>
    ELSE IF Head(text) = "\n" THEN <<cur>> \o SplitLines(Tail(text), <<>>)
    ELSE SplitLines(Tail(text), Append(cur, Head(text)))

\* GOAL_PREFIX_RE.sub("", line): ^\s*!goal\s* under re.IGNORECASE, once, at the start
RemoveGoalPrefix(line) ==
    LET start == LStrip(line)
    IN  IF Len(start) >= 5 /\ start[1] = "!"
           /\ LowerStr(SubSeq(start, 2, 5)) = <<"g", "o", "a", "l">>
        THEN LStrip(SubSeq(start, 6, Len(start)))
        ELSE line

\* normalize_prompt
NormalizePrompt(prompt) ==
    LET raw == SplitLines(SelectSeq(prompt, LAMBDA ch : ch # "\r"), <<>>)
        lines == SelectSeq([i \in DOMAIN raw |-> Strip(raw[i])], LAMBDA line : line # <<>>)
        normalized_lines ==
            SelectSeq([i \in DOMAIN lines |-> RemoveGoalPrefix(lines[i])],
                      LAMBDA line : line # <<>>)
        joined == Strip(Join(Sp, normalized_lines))
    IN  IF joined # <<>> THEN joined ELSE Strip(prompt)

GoalPrefix == <<"!", "g", "o", "a", "l">>

\* "!goal oak", "oak\r\n  !GOAL  coal\n\ntorch" and "!goal"
CasePrompts ==
    { GoalPrefix \o Sp \o Oak,
      Oak \o <<"\r", "\n", " ", " ", "!", "G", "O", "A", "L", " ", " ">> \o Coal
          \o <<"\n", "\n">> \o Chars("torch"),
      GoalPrefix }

\* validate_case, lines 74-77: top_k is None or a positive int
\* (top_k is <<>> for None and <<k>> for the integer k)
ValidTopK(top_k) == top_k = <<>> \/ top_k[1] > 0

\* The expect_good and expect_bad lists of the cases.
Expectations ==
    { [good |-> <<>>, bad |-> <<>>],
      [good |-> <<"torch">>, bad |-> <<"furnace">>],
      [good |-> <<"torch">>, bad |-> <<"furnace", "torch">>],
      [good |-> <<"furnace", "anvil", "torch">>, bad |-> <<"furnace", "torch">>] }

\* The cases run_case is given: those validate_case lets through.
Cases ==
    {case \in {[id |-> "case", prompt |-> prompt,
                expect_good |-> e.good, expect_bad |-> e.bad, top_k |-> top_k] :
                   prompt \in CasePrompts, e \in Expectations,
                   top_k \in {<<>>, <<0>>, <<1>>}} : ValidTopK(case.top_k)}

\* Every non-blank text the library is searched with.
LibrarySearchTexts ==
    {q \in LibraryQueries
            \cup {SearchQuery(c.goal, c.context, c.snapshot, c.query) : c \in RetrieveCalls}
            \cup {NormalizePrompt(p) : p \in CasePrompts} : ~IsBlank(q)}

\* _tokenize on the texts above, computed once.
TokenTable ==
    Tabulated([text \in {e.text : e \in EntryPool \cup ShelterPool}
                         \cup QueryPool \cup ShelterQueries |->
                  Tokenize(text)])

Tokens(text) == IF text \in DOMAIN TokenTable THEN TokenTable[text] ELSE Tokenize(text)

(***************************************************************************)
(* Exact rational arithmetic (the reals the floats stand for).             *)
(***************************************************************************)
Abs(x) == IF x < 0 THEN -x ELSE x

RECURSIVE Gcd(_, _)
Gcd(a, b) == IF b = 0 THEN a ELSE Gcd(b, a % b)

\* n / d in lowest terms, d > 0.
Rat(n, d) == LET g == Gcd(Abs(n), d) IN [n |-> n \div g, d |-> d \div g]

Zero == Rat(0, 1)
One == Rat(1, 1)

RAdd(a, b) ==
    LET g == Gcd(a.d, b.d)
    IN  Rat(a.n * (b.d \div g) + b.n * (a.d \div g), (a.d \div g) * b.d)

RMul(a, b) ==
    LET g1 == Gcd(Abs(a.n), b.d)
        g2 == Gcd(Abs(b.n), a.d)
    IN  [n |-> (a.n \div g1) * (b.n \div g2), d |-> (a.d \div g2) * (b.d \div g1)]

\* a / b for b # 0.
RDiv(a, b) ==
    RMul(a, IF b.n > 0 THEN [n |-> b.d, d |-> b.n] ELSE [n |-> -b.d, d |-> -b.n])

\* a/b < c/d for a, c >= 0 and b, d > 0, by continued fractions (no products).
RECURSIVE PosLess(_, _, _, _)
PosLess(a, b, c, d) ==
    IF a \div b # c \div d THEN a \div b < c \div d
    ELSE IF c % d = 0 THEN FALSE
    ELSE IF a % b = 0 THEN TRUE
    ELSE PosLess(d, c % d, b, a % b)

RLess(a, b) ==
    IF a.n < 0 /\ b.n >= 0 THEN TRUE
    ELSE IF a.n >= 0 /\ b.n < 0 THEN FALSE
    ELSE IF a.n >= 0 THEN PosLess(a.n, a.d, b.n, b.d)
    ELSE PosLess(-b.n, b.d, -a.n, a.d)

RLeq(a, b) == ~RLess(b, a)

\* The sum of f[x] over x in S.
RECURSIVE RSum(_, _)
RSum(f, S) ==
    IF S = {} THEN Zero
    ELSE LET x == CHOOSE y \in S : TRUE IN RAdd(f[x], RSum(f, S \ {x}))

\* x |-> x * |x|, the encoding of norms and scores.
SignedSquare(a) == [n |-> a.n * Abs(a.n), d |-> a.d * a.d]

\* math.sqrt(x) for x >= 0, in the signed-square encoding: the encoding of
\* sqrt(x) is sqrt(x) * sqrt(x) = x.
Sqrt(x) == x

\* math.log(k) for an integer k >= 1, in tenths.
LnTenths == <<0, 7, 11, 14, 16, 18, 19, 21, 22, 23, 24, 25, 26>>

\* Mutant of Idf: math.log(N / (1 + df)), the numerator without its + 1.
IdfUnsmoothed(num_docs, df) == Rat(LnTenths[num_docs] - LnTenths[1 + df], 10)

\* Mutant of Idf: the smoothed idf with 1 added, math.log(...) + 1.
IdfPlusOne(num_docs, df) == Rat(LnTenths[1 + num_docs] - LnTenths[1 + df] + 10, 10)

\* math.log((1 + num_docs) / (1 + df))
Idf(num_docs, df) == Rat(LnTenths[1 + num_docs] - LnTenths[1 + df], 10)

(***************************************************************************)
(* collections.Counter                                                     *)
(***************************************************************************)
EmptyCounter == [t \in {} |-> 0]

\* Counter.__getitem__ / Counter.get(token, 0)
Count(counter, t) == IF t \in DOMAIN counter THEN counter[t] ELSE 0

\* Counter(tokens) for a sequence of tokens
Counter(tokens) ==
    [t \in Range(tokens) |-> Cardinality({i \in DOMAIN tokens : tokens[i] = t})]

\* counter.update(S) for a set S: one more for each element of S
CounterUpdate(counter, S) ==
    [t \in DOMAIN counter \cup S |-> Count(counter, t) + (IF t \in S THEN 1 ELSE 0)]

(***************************************************************************)
(* HowToIndex.build                                                        *)
(***************************************************************************)
\* Mutant of DocFreqUpTo: update(tokens) on the token list, once per occurrence.
RECURSIVE DocFreqPerOccurrence(_, _)
DocFreqPerOccurrence(es, n) ==
    IF n = 0 THEN EmptyCounter
    ELSE LET before == DocFreqPerOccurrence(es, n - 1)
             tf == Counter(Tokens(es[n].text))
         IN  [t \in DOMAIN before \cup DOMAIN tf |-> Count(before, t) + Count(tf, t)]

\* lines 50-53: the document frequencies after the first n entries
RECURSIVE DocFreqUpTo(_, _)
DocFreqUpTo(es, n) ==
    IF n = 0 THEN EmptyCounter
    ELSE CounterUpdate(DocFreqUpTo(es, n - 1), Range(Tokens(es[n].text)))

\* lines 60-66: the weight vector of one entry
Embedding(entry, num_docs, df) ==
    LET tokens == Tokens(entry.text)
        tf == Counter(tokens)
        doc_len == Len(tokens)
    IN  [t \in DOMAIN tf |-> RMul(Rat(tf[t], doc_len), Idf(num_docs, Count(df, t)))]

\* math.sqrt(sum(weight * weight for weight in vector.values()))
VectorNorm(vector) ==
    Sqrt(RSum([t \in DOMAIN vector |-> RMul(vector[t], vector[t])], DOMAIN vector))

\* Mutant of StoredNorm: the computed norm is stored as it is.
StoredNormAsComputed(norm) == norm

\* line 69: norm if norm != 0 else 1.0
StoredNorm(norm) == IF norm # Zero THEN norm ELSE One

\* lines 50-71: build() on a non-empty entry list
BuildNonEmpty(es) ==
    LET df == DocFreqUpTo(es, Len(es))
        num_docs == Len(es)
        emb == [i \in DOMAIN es |-> Embedding(es[i], num_docs, df)]
    IN  [doc_freq |-> df,
         embeddings |-> emb,
         norms |-> [i \in DOMAIN es |-> StoredNorm(VectorNorm(emb[i]))],
         built |-> TRUE]

\* Mutant of BuildState: the early return of lines 43-48 without _built = True.
BuildStateEmptyStaysDirty(es) ==
    IF es = <<>>
    THEN [doc_freq |-> EmptyCounter, embeddings |-> <<>>, norms |-> <<>>, built |-> FALSE]
    ELSE BuildNonEmpty(es)

\* The state build() leaves: [doc_freq, embeddings, norms, built]
BuildState(es) ==
    IF es = <<>>
    THEN [doc_freq |-> EmptyCounter, embeddings |-> <<>>, norms |-> <<>>, built |-> TRUE]
    ELSE BuildNonEmpty(es)

(***************************************************************************)
(* HowToIndex._vectorize_query and HowToIndex.search                       *)
(***************************************************************************)
VectorizeQuery(text, es, df) ==
    LET tokens == Tokens(text)
        tf == Counter(tokens)
        num_docs == IF Len(es) # 0 THEN Len(es) ELSE 1
    IN  [t \in DOMAIN tf |-> RMul(Rat(tf[t], Len(tokens)), Idf(num_docs, Count(df, t)))]

\* line 94: math.sqrt(...) or 1.0
QueryNorm(query_vec) ==
    LET norm == VectorNorm(query_vec) IN IF norm # Zero THEN norm ELSE One

\* lines 98-100: the sparse dot product over the query's tokens
Dot(query_vec, embedding) ==
    RSum([t \in DOMAIN query_vec |->
             RMul(query_vec[t], IF t \in DOMAIN embedding THEN embedding[t] ELSE Zero)],
         DOMAIN query_vec)

\* line 101: dot / (query_norm * norm) divides by zero
ScoreRaises(query_norm, norm) == norm # Zero /\ RMul(query_norm, norm) = Zero

\* Mutant of Score: the dot product divided by the query norm only.
ScoreWithoutEntryNorm(dot, query_norm, norm) ==
    IF norm # Zero THEN RDiv(SignedSquare(dot), query_norm) ELSE Zero

\* line 101: dot / (query_norm * norm) if norm else 0.0
Score(dot, query_norm, norm) ==
    IF norm # Zero THEN RDiv(SignedSquare(dot), RMul(query_norm, norm)) ELSE Zero

\* zip(self.entries, self._embeddings, self._norms) stops at the shortest
ZipLen(es, emb, nrm) ==
    LET S == {Len(es), Len(emb), Len(nrm)} IN CHOOSE m \in S : \A k \in S : m <= k

\* Mutant of Scores: only the entries with a positive score become results.
ScoresPositiveOnly(query_vec, query_norm, es, emb, nrm) ==
    SelectSeq([i \in 1..ZipLen(es, emb, nrm) |->
                  [entry |-> es[i], pos |-> i,
                   score |-> Score(Dot(query_vec, emb[i]), query_norm, nrm[i])]],
              LAMBDA r : RLess(Zero, r.score))

\* lines 96-102: one SearchResult per zipped entry, in entry order.
\* pos is the position in self.entries of the entry the result refers to.
Scores(query_vec, query_norm, es, emb, nrm) ==
    [i \in 1..ZipLen(es, emb, nrm) |->
        [entry |-> es[i], pos |-> i,
         score |-> Score(Dot(query_vec, emb[i]), query_norm, nrm[i])]]

\* Mutant of SortDesc: the sort without reverse=True (ascending).
RECURSIVE SortAsc(_)
SortAsc(rs) ==
    IF rs = <<>> THEN <<>>
    ELSE LET sorted == SortAsc(SubSeq(rs, 1, Len(rs) - 1))
             x == rs[Len(rs)]
             k == Cardinality({j \in DOMAIN sorted : RLeq(sorted[j].score, x.score)})
         IN  SubSeq(sorted, 1, k) \o <<x>> \o SubSeq(sorted, k + 1, Len(sorted))

\* Mutant of SortDesc: sorted ascending and then reversed, which also reverses
\* the order of entries with equal scores.
SortAscReversed(rs) ==
    LET asc == SortAsc(rs) IN [i \in DOMAIN asc |-> asc[Len(asc) + 1 - i]]

\* list.sort(key=score, reverse=True): a stable sort, equal scores keep their order
RECURSIVE SortDesc(_)
SortDesc(rs) ==
    IF rs = <<>> THEN <<>>
    ELSE LET sorted == SortDesc(SubSeq(rs, 1, Len(rs) - 1))
             x == rs[Len(rs)]
             k == Cardinality({j \in DOMAIN sorted : RLeq(x.score, sorted[j].score)})
         IN  SubSeq(sorted, 1, k) \o <<x>> \o SubSeq(sorted, k + 1, Len(sorted))

\* Mutant of Prefix: scores[-top_k:], the slice taken from the other end.
Suffix(rs, top_k) ==
    LET start == IF top_k > 0 THEN Len(rs) - top_k + 1 ELSE 1 - top_k
    IN  SubSeq(rs, IF start < 1 THEN 1 ELSE start, Len(rs))

\* scores[:top_k]
Prefix(rs, top_k) ==
    LET stop == IF top_k >= 0 THEN top_k ELSE Len(rs) + top_k
        m == IF stop < 0 THEN 0 ELSE IF stop > Len(rs) THEN Len(rs) ELSE stop
    IN  SubSeq(rs, 1, m)

\* line 80: count / len(tokens) divides by zero
VectorizeRaises(text) == Range(Tokens(text)) # {} /\ Len(Tokens(text)) = 0

\* lines 93-102 raise: a division by zero at line 80 or line 101
ScoringRaises(query, query_norm, es, emb, nrm) ==
    \/ VectorizeRaises(query)
    \/ \E i \in 1..ZipLen(es, emb, nrm) : ScoreRaises(query_norm, nrm[i])

(***************************************************************************)
(* The inputs the operations are called with.                              *)
(***************************************************************************)
TopKs == {0 - MaxNegTopK, 0, 1, 2, MaxTopK}

EntryLists == UNION {[1..n -> EntryPool] : n \in 0..MaxEntries}

ShelterLists == UNION {[1..n -> ShelterPool] : n \in 0..MaxEntries}

NoCall == [op |-> "init", query |-> <<>>, top_k |-> 0,
           was_built |-> FALSE, prev_add_on_built |-> FALSE, repeated |-> FALSE]

\* No module-level function has been called: no argument, no outcome yet.
NoInput == <<>>
Pending == [op |-> "none"]

(***************************************************************************)
(* HowToIndex.search, lines 93-104: the sorted scores before the slice,    *)
(* or raised.                                                              *)
(***************************************************************************)
Ranking(query, es, b) ==
    LET query_vec == VectorizeQuery(query, es, b.doc_freq)
        query_norm == QueryNorm(query_vec)
    IN  IF ScoringRaises(query, query_norm, es, b.embeddings, b.norms)
        THEN [raised |-> TRUE, scores |-> <<>>]
        ELSE [raised |-> FALSE,
              scores |-> SortDesc(Scores(query_vec, query_norm, es, b.embeddings, b.norms))]

(***************************************************************************)
(* BuildState and Ranking are pure; their values on the inputs of the      *)
(* model are computed once and looked up (the operators are used directly  *)
(* on any other argument).                                                 *)
(***************************************************************************)
CachedLists == EntryLists \cup ShelterLists \cup LibraryEntryLists

BuildCache == Tabulated([es \in CachedLists |-> BuildState(es)])

BuildOf(es) == IF es \in CachedLists THEN BuildCache[es] ELSE BuildState(es)

CachedQueries ==
    {x \in QueryPool \cup ShelterQueries \cup LibrarySearchTexts : ~IsBlank(x)}

ListsSearchedWith(query) ==
    ((IF query \in QueryPool THEN EntryLists ELSE {})
        \cup (IF query \in ShelterQueries THEN ShelterLists ELSE {})
        \cup (IF query \in LibrarySearchTexts THEN LibraryEntryLists ELSE {})) \ {<<>>}

RankingCache ==
    Tabulated([q \in CachedQueries |->
                  Tabulated([es \in ListsSearchedWith(q) |-> Ranking(q, es, BuildCache[es])])])

RankingOf(query, es, b) ==
    IF query \in CachedQueries /\ es \in ListsSearchedWith(query) /\ b = BuildCache[es]
    THEN RankingCache[query][es]
    ELSE Ranking(query, es, b)

(***************************************************************************)
(* The state machine of one HowToIndex.                                    *)
(*   result, raised : what the last call returned / whether it raised      *)
(*   last           : the last call: its name and arguments, the built     *)
(*                    flag it found, and whether the call before it was an  *)
(*                    add_entry on a built index, and whether it repeats    *)
(*                    the call before it (same name, same arguments)        *)
(***************************************************************************)
\* HowToIndex.__init__
Init ==
    /\ entries \in EntryLists
    /\ doc_freq = EmptyCounter
    /\ embeddings = <<>>
    /\ norms = <<>>
    /\ built = FALSE
    /\ result = <<>>
    /\ raised = FALSE
    /\ last = NoCall
    /\ input = NoInput
    /\ output = Pending
    /\ recipes = <<>>

Called(op, query, top_k) ==
    [op |-> op, query |-> query, top_k |-> top_k, was_built |-> built,
     prev_add_on_built |-> (last.op = "add_entry" /\ last.was_built),
     repeated |-> (last.op = op /\ last.query = query /\ last.top_k = top_k)]

\* Mutant of AddEntry: the insert without _built = False.
AddEntryKeepsBuilt(entry) ==
    /\ Len(entries) < MaxEntries
    /\ entries' = Append(entries, entry)
    /\ UNCHANGED <<doc_freq, embeddings, norms, built>>
    /\ result' = <<>>
    /\ raised' = FALSE
    /\ last' = Called("add_entry", <<>>, 0)
    /\ UNCHANGED <<call_vars, recipes>>

\* Mutant of AddEntry: the insert rebuilds at once.
AddEntryEager(entry) ==
    /\ Len(entries) < MaxEntries
    /\ entries' = Append(entries, entry)
    /\ \E b \in {BuildNonEmpty(Append(entries, entry))} :
           doc_freq' = b.doc_freq /\ embeddings' = b.embeddings /\ norms' = b.norms
    /\ built' = TRUE
    /\ result' = <<>>
    /\ raised' = FALSE
    /\ last' = Called("add_entry", <<>>, 0)
    /\ UNCHANGED <<call_vars, recipes>>

\* HowToIndex.add_entry
AddEntry(entry) ==
    /\ Len(entries) < MaxEntries
    /\ entries' = Append(entries, entry)
    /\ built' = FALSE
    /\ UNCHANGED <<doc_freq, embeddings, norms>>
    /\ result' = <<>>
    /\ raised' = FALSE
    /\ last' = Called("add_entry", <<>>, 0)
    /\ UNCHANGED <<call_vars, recipes>>

\* Mutant of Build: build() without the reset of line 50, so that the counts
\* of this pass are added to the counts already stored.
BuildWithoutReset ==
    \E df \in {IF entries = <<>> THEN doc_freq
               ELSE LET fresh == DocFreqUpTo(entries, Len(entries))
                    IN  [t \in DOMAIN doc_freq \cup DOMAIN fresh |->
                            Count(doc_freq, t) + Count(fresh, t)]} :
    \E emb \in {[i \in DOMAIN entries |-> Embedding(entries[i], Len(entries), df)]} :
        /\ doc_freq' = (IF entries = <<>> THEN EmptyCounter ELSE df)
        /\ embeddings' = emb
        /\ norms' = [i \in DOMAIN entries |-> StoredNorm(VectorNorm(emb[i]))]
        /\ built' = TRUE
        /\ UNCHANGED entries
        /\ result' = <<>>
        /\ raised' = FALSE
        /\ last' = Called("build", <<>>, 0)
        /\ UNCHANGED <<call_vars, recipes>>

\* HowToIndex.build
Build ==
    \E b \in {BuildOf(entries)} :
        /\ doc_freq' = b.doc_freq
        /\ embeddings' = b.embeddings
        /\ norms' = b.norms
        /\ built' = b.built
        /\ UNCHANGED entries
        /\ result' = <<>>
        /\ raised' = FALSE
        /\ last' = Called("build", <<>>, 0)
        /\ UNCHANGED <<call_vars, recipes>>

\* The index as it is: [doc_freq, embeddings, norms, built]
Current == [doc_freq |-> doc_freq, embeddings |-> embeddings, norms |-> norms, built |-> built]

\* Mutant of EnsureBuilt: search never builds.
NeverBuilds == Current

\* lines 87-88: if not self._built: self.build()
EnsureBuilt == IF built THEN Current ELSE BuildOf(entries)

\* lines 90-105: [raised, result]
Answer(query, top_k, es, b) ==
    IF es = <<>>
    THEN [raised |-> FALSE, result |-> <<>>]
    ELSE LET r == RankingOf(query, es, b)
         IN  [raised |-> r.raised, result |-> Prefix(r.scores, top_k)]

\* Mutant of Search: the index is marked dirty again once the query is answered.
SearchInvalidates(query, top_k) ==
    /\ last' = Called("search", query, top_k)
    /\ UNCHANGED entries
    /\ UNCHANGED <<call_vars, recipes>>
    /\ IF IsBlank(query)
       THEN /\ UNCHANGED <<doc_freq, embeddings, norms, built>>
            /\ result' = <<>>
            /\ raised' = FALSE
       ELSE \E b \in {EnsureBuilt} :
            \E r \in {Answer(query, top_k, entries, b)} :
                /\ doc_freq' = b.doc_freq
                /\ embeddings' = b.embeddings
                /\ norms' = b.norms
                /\ built' = FALSE
                /\ result' = r.result
                /\ raised' = r.raised

\* lines 83-105: what search does to the index and what it returns
SearchIndex(query, top_k) ==
    /\ last' = Called("search", query, top_k)
    /\ UNCHANGED entries
    /\ IF IsBlank(query)
       THEN /\ UNCHANGED <<doc_freq, embeddings, norms, built>>
            /\ result' = <<>>
            /\ raised' = FALSE
       ELSE \E b \in {EnsureBuilt} :
            \E r \in {Answer(query, top_k, entries, b)} :
                /\ doc_freq' = b.doc_freq
                /\ embeddings' = b.embeddings
                /\ norms' = b.norms
                /\ built' = b.built
                /\ result' = r.result
                /\ raised' = r.raised

\* HowToIndex.search
Search(query, top_k) ==
    /\ SearchIndex(query, top_k)
    /\ UNCHANGED <<call_vars, recipes>>

Next ==
    \/ \E entry \in EntryPool : AddEntry(entry)
    \/ Build
    \/ \E query \in QueryPool, top_k \in TopKs : Search(query, top_k)

Spec == Init /\ [][Next]_vars

(***************************************************************************)
(* The tokenizer on its own: _tokenize is called once on a text of at most *)
(* MaxTextLen characters over TokenizeAlphabet.                            *)
(***************************************************************************)
\* An ASCII lower-case letter, upper-case letter and digit, two separators,
\* a non-ASCII letter outside WORD_RE, and three of the FoldedLetters.
TokenizeAlphabet == {"a", "Z", "7", " ", "-", "U+00E9", "U+017F", "U+212A", "U+0130"}

RECURSIVE TextsUpTo(_)
TextsUpTo(n) ==
    IF n = 0 THEN {<<>>}
    ELSE LET shorter == TextsUpTo(n - 1)
         IN  shorter \cup {Append(t, ch) : t \in shorter, ch \in TokenizeAlphabet}

IndexUnused ==
    /\ recipes = <<>>
    /\ entries = <<>>
    /\ doc_freq = EmptyCounter
    /\ embeddings = <<>>
    /\ norms = <<>>
    /\ built = FALSE
    /\ result = <<>>
    /\ raised = FALSE
    /\ last = NoCall

TokenizeInit ==
    /\ IndexUnused
    /\ input \in TextsUpTo(MaxTextLen)
    /\ output = Pending

\* _tokenize(text)
TokenizeCall ==
    /\ output = Pending
    /\ output' = [op |-> "_tokenize", tokens |-> Tokenize(input)]
    /\ UNCHANGED input
    /\ UNCHANGED <<index_vars, recipes>>

TokenizeNext == TokenizeCall

TokenizeSpec == TokenizeInit /\ [][TokenizeNext]_vars

(***************************************************************************)
(* One HowToIndex over the entries A and B: it starts empty or with both   *)
(* entries, and is driven by the same add_entry, build and search.         *)
(***************************************************************************)
ShelterInit ==
    /\ entries \in {<<>>, <<EntryShelter, EntryFurnace>>}
    /\ doc_freq = EmptyCounter
    /\ embeddings = <<>>
    /\ norms = <<>>
    /\ built = FALSE
    /\ result = <<>>
    /\ raised = FALSE
    /\ last = NoCall
    /\ input = NoInput
    /\ output = Pending
    /\ recipes = <<>>

ShelterNext ==
    \/ \E entry \in ShelterPool : AddEntry(entry)
    \/ Build
    \/ \E query \in ShelterQueries, top_k \in TopKs : Search(query, top_k)

ShelterSpec == ShelterInit /\ [][ShelterNext]_vars

(***************************************************************************)
(* recipes.py: loading recipe documents.                                   *)
(*   A document is what json.load returns for one file, or the fact that   *)
(*   the file does not decode.  kind is "object" (a JSON object), "array"  *)
(*   (a JSON array holding none of the field names), "scalar" (null, a     *)
(*   number, true or false) or "undecodable".  Of an object only the three *)
(*   required fields are told apart: each is "absent", "valid" (a value    *)
(*   the checks of lines 98-107 accept) or "invalid" (present, and         *)
(*   rejected by them); the steps and the optional fields of the           *)
(*   documents of the model are otherwise well formed.                     *)
(*   A directory is [exists, files]: files are its *.json documents in     *)
(*   sorted path order, and the position of a file stands for its path.    *)
(***************************************************************************)
RequiredFields == <<"name", "goal", "steps">>
FieldStates == {"absent", "valid", "invalid"}

Objects == [kind : {"object"}, name : FieldStates, goal : FieldStates, steps : FieldStates]

NotAnObject(kind) == [kind |-> kind, name |-> "absent", goal |-> "absent", steps |-> "absent"]

Documents == Objects \cup {NotAnObject("array"), NotAnObject("scalar"), NotAnObject("undecodable")}

Directories ==
    {[exists |-> FALSE, files |-> <<>>]}
        \cup {[exists |-> TRUE, files |-> fs] :
                 fs \in UNION {[1..n -> Documents] : n \in 0..MaxFiles}}

\* An exception of the given type, and a normal return.
Raise(type, message, path) == [raised |-> type, message |-> message, path |-> path]
Return(value) == [raised |-> "none", value |-> value]

\* field_name in data
Contains(data, field_name) == data.kind = "object" /\ data[field_name] # "absent"

\* _require_field; the message holds parent and field_name in the order
\* the f-string of line 61 joins them.
RequireField(data, field_name, parent, path) ==
    IF data.kind = "scalar"
    THEN Raise("TypeError", <<"argument is not iterable">>, path)
    ELSE IF ~Contains(data, field_name)
    THEN Raise("RecipeValidationError", <<"missing required field", parent, field_name>>, path)
    ELSE Return(TRUE)

\* lines 90-92: the required fields from the k-th on, in order
RECURSIVE RequireFieldsFrom(_, _, _)
RequireFieldsFrom(data, k, path) ==
    IF k > Len(RequiredFields) THEN Return(TRUE)
    ELSE LET r == RequireField(data, RequiredFields[k], "recipe", path)
         IN  IF r.raised # "none" THEN r ELSE RequireFieldsFrom(data, k + 1, path)

\* _parse_recipe
ParseRecipe(data, path) ==
    LET required == RequireFieldsFrom(data, 1, path)
    IN  IF required.raised # "none" THEN required
        ELSE IF data.name = "invalid"
        THEN Raise("RecipeValidationError", <<"name must be a non-empty string">>, path)
        ELSE IF data.goal = "invalid"
        THEN Raise("RecipeValidationError", <<"goal must be a non-empty string">>, path)
        ELSE IF data.steps = "invalid"
        THEN Raise("RecipeValidationError", <<"steps must be a list">>, path)
        ELSE Return([name |-> data.name, goal |-> data.goal, steps |-> data.steps, path |-> path])

\* load_recipe_file
LoadRecipeFile(data, path) ==
    IF data.kind = "undecodable"
    THEN Raise("RecipeValidationError", <<"JSON decode error">>, path)
    ELSE ParseRecipe(data, path)

\* Mutant of LoadFilesFrom: a file that does not load is skipped.
RECURSIVE LoadFilesSkipping(_, _, _)
LoadFilesSkipping(files, path, so_far) ==
    IF path > Len(files) THEN Return(so_far)
    ELSE LET r == LoadRecipeFile(files[path], path)
         IN  LoadFilesSkipping(files, path + 1,
                 IF r.raised # "none" THEN so_far ELSE Append(so_far, r.value))

\* lines 156-159: the loop over the sorted paths, from the given path on;
\* so_far is the local list recipes
RECURSIVE LoadFilesFrom(_, _, _)
LoadFilesFrom(files, path, so_far) ==
    IF path > Len(files) THEN Return(so_far)
    ELSE LET r == LoadRecipeFile(files[path], path)
         IN  IF r.raised # "none" THEN r
             ELSE LoadFilesFrom(files, path + 1, Append(so_far, r.value))

\* load_recipes_from_dir
LoadRecipesFromDir(directory) ==
    IF ~directory.exists
    THEN Raise("FileNotFoundError", <<"Recipe directory does not exist">>, 0)
    ELSE LoadFilesFrom(directory.files, 1, <<>>)

(***************************************************************************)
(* The loader on its own: one call of load_recipe_file on a file of a      *)
(* directory, or of load_recipes_from_dir on the directory.                *)
(***************************************************************************)
RecipesInit ==
    /\ IndexUnused
    /\ input \in Directories
    /\ output = Pending

CallLoadRecipeFile ==
    /\ output = Pending
    /\ \E path \in DOMAIN input.files :
           output' = [op |-> "load_recipe_file", path |-> path,
                      outcome |-> LoadRecipeFile(input.files[path], path)]
    /\ UNCHANGED input
    /\ UNCHANGED <<index_vars, recipes>>

CallLoadRecipesFromDir ==
    /\ output = Pending
    /\ output' = [op |-> "load_recipes_from_dir", path |-> 0,
                  outcome |-> LoadRecipesFromDir(input)]
    /\ UNCHANGED input
    /\ UNCHANGED <<index_vars, recipes>>

RecipesNext ==
    \/ CallLoadRecipeFile
    \/ CallLoadRecipesFromDir

RecipesSpec == RecipesInit /\ [][RecipesNext]_vars

(***************************************************************************)
(* recipes.py: RecipeLibrary, with its two callers                         *)
(* retrieve_planning_knowledge (planner/rag.py) and run_case               *)
(* (scripts/evaluate_rag.py).                                              *)
(*   recipes is self.recipes and the index variables are self.index;       *)
(*   output is the last call on the library, with what it returned.        *)
(***************************************************************************)
\* Mutant of NameToRecipe: the first recipe of a name is kept.
NameToRecipeFirst(rs) ==
    [name \in {rs[i].name : i \in DOMAIN rs} |->
        rs[CHOOSE i \in DOMAIN rs :
               /\ rs[i].name = name
               /\ \A j \in DOMAIN rs : rs[j].name = name => i <= j]]

\* {recipe.name: recipe for recipe in self.recipes}: a later recipe replaces
\* an earlier one of the same name
NameToRecipe(rs) ==
    [name \in {rs[i].name : i \in DOMAIN rs} |->
        rs[CHOOSE i \in DOMAIN rs :
               /\ rs[i].name = name
               /\ \A j \in DOMAIN rs : rs[j].name = name => j <= i]]

\* lines 187-190 (and rag.py 75-81): the recipes of the results' keys, in
\* result order; a key without a recipe is passed over
RECURSIVE Resolved(_, _)
Resolved(results, name_to_recipe) ==
    IF results = <<>> THEN <<>>
    ELSE (IF results[1].entry.key \in DOMAIN name_to_recipe
          THEN <<name_to_recipe[results[1].entry.key]>> ELSE <<>>)
             \o Resolved(Tail(results), name_to_recipe)

\* _format_recipe_fact: the parts the f-strings join, in order
FormatRecipeFact(recipe, max_steps) ==
    LET steps == Prefix(recipe.steps, max_steps)
    IN  [name |-> Chars(recipe.name),
         goal |-> recipe.goal,
         tags |-> Join(<<",", " ">>, recipe.tags),
         steps |-> [i \in DOMAIN steps |->
                       [title |-> steps[i].title,
                        action |-> steps[i].action,
                        detail |-> IF Len(steps[i].details) > 180
                                   THEN SubSeq(steps[i].details, 1, 177) \o <<".", ".", ".">>
                                   ELSE steps[i].details,
                        checks |-> Join(<<",", " ">>, Prefix(steps[i].checks, 2))]]]

\* RecipeLibrary.__init__
LibraryInit ==
    /\ recipes \in RecipeLists
    /\ entries = EntriesOf(recipes)
    /\ \E b \in {BuildOf(EntriesOf(recipes))} :
           /\ doc_freq = b.doc_freq
           /\ embeddings = b.embeddings
           /\ norms = b.norms
           /\ built = b.built
    /\ result = <<>>
    /\ raised = FALSE
    /\ last = [NoCall EXCEPT !.op = "build"]
    /\ input = NoInput
    /\ output = Pending

\* Mutant of AddRecipe: the entry is added and the index is left to rebuild
\* on the next search.
AddRecipeLazy(recipe) ==
    /\ Len(recipes) < MaxRecipes
    /\ recipes' = Append(recipes, recipe)
    /\ entries' = Append(entries, AsEntry(recipe))
    /\ built' = FALSE
    /\ UNCHANGED <<doc_freq, embeddings, norms>>
    /\ result' = <<>>
    /\ raised' = FALSE
    /\ last' = Called("add_entry", <<>>, 0)
    /\ output' = [op |-> "add_recipe"]
    /\ UNCHANGED input

\* RecipeLibrary.add_recipe: append, index.add_entry, index.build
AddRecipe(recipe) ==
    /\ Len(recipes) < MaxRecipes
    /\ recipes' = Append(recipes, recipe)
    /\ \E es \in {Append(entries, AsEntry(recipe))} :
       \E b \in {BuildOf(es)} :
           /\ entries' = es
           /\ doc_freq' = b.doc_freq
           /\ embeddings' = b.embeddings
           /\ norms' = b.norms
           /\ built' = b.built
    /\ result' = <<>>
    /\ raised' = FALSE
    /\ last' = [op |-> "build", query |-> <<>>, top_k |-> 0, was_built |-> FALSE,
                prev_add_on_built |-> built, repeated |-> FALSE]
    /\ output' = [op |-> "add_recipe"]
    /\ UNCHANGED input

\* RecipeLibrary.search
LibrarySearch(query, top_k) ==
    /\ SearchIndex(query, top_k)
    /\ output' = [op |-> "search", query |-> query, top_k |-> top_k]
    /\ UNCHANGED <<input, recipes>>

\* RecipeLibrary.top_recipes
TopRecipes(query, top_k) ==
    /\ SearchIndex(query, top_k)
    /\ output' = [op |-> "top_recipes", query |-> query, top_k |-> top_k,
                  value |-> Resolved(result', NameToRecipe(recipes))]
    /\ UNCHANGED <<input, recipes>>

\* retrieve_planning_knowledge(goal, snapshot, library, context=, query=, top_k=, max_steps=)
RetrievePlanningKnowledge(goal, snapshot, context, query, top_k, max_steps) ==
    \E search_query \in {SearchQuery(goal, context, snapshot, query)} :
        /\ SearchIndex(search_query, top_k)
        /\ \E found \in {Resolved(result', NameToRecipe(recipes))} :
               output' = [op |-> "retrieve_planning_knowledge",
                          query |-> search_query, top_k |-> top_k,
                          max_steps |-> max_steps,
                          facts |-> [i \in DOMAIN found |->
                                        FormatRecipeFact(found[i], max_steps)]]
        /\ UNCHANGED <<input, recipes>>

\* Mutant of CaseTopK: the case's own top_k is not looked at.
CaseTopKDefaultOnly(case, default_top_k) == default_top_k

\* line 93: case.get("top_k") or default_top_k
CaseTopK(case, default_top_k) ==
    IF case.top_k # <<>> /\ case.top_k[1] # 0 THEN case.top_k[1] ELSE default_top_k

\* RagCaseResult.passed
Passed(missing_good, retrieved_bad) == missing_good = <<>> /\ retrieved_bad = <<>>

\* run_case(library, case, default_top_k)
RunCase(case, default_top_k) ==
    \E normalized_prompt \in {NormalizePrompt(case.prompt)} :
        /\ SearchIndex(normalized_prompt, CaseTopK(case, default_top_k))
        /\ \E retrieved \in {[i \in DOMAIN result' |-> result'[i].entry.key]} :
           \E missing_good \in {SelectSeq(case.expect_good,
                                          LAMBDA name : name \notin Range(retrieved))} :
           \E retrieved_bad \in {SelectSeq(case.expect_bad,
                                           LAMBDA name : name \in Range(retrieved))} :
               output' = [op |-> "run_case", case |-> case,
                          default_top_k |-> default_top_k,
                          normalized_prompt |-> normalized_prompt,
                          retrieved |-> retrieved,
                          missing_good |-> missing_good,
                          retrieved_bad |-> retrieved_bad,
                          passed |-> Passed(missing_good, retrieved_bad)]
        /\ UNCHANGED <<input, recipes>>

DefaultTopKs == {2, MaxTopK}

LibraryNext ==
    \/ \E recipe \in RecipePool : AddRecipe(recipe)
    \/ \E query \in LibraryQueries, top_k \in {1, MaxTopK} : LibrarySearch(query, top_k)
    \/ \E query \in LibraryQueries, top_k \in {1, MaxTopK} : TopRecipes(query, top_k)
    \/ \E c \in RetrieveCalls, max_steps \in {1, 3} :
           RetrievePlanningKnowledge(c.goal, c.snapshot, c.context, c.query, MaxTopK, max_steps)
    \/ \E case \in Cases, default_top_k \in DefaultTopKs : RunCase(case, default_top_k)

LibrarySpec == LibraryInit /\ [][LibraryNext]_vars

(***************************************************************************)
(* The claims.                                                             *)
(***************************************************************************)
\* The distinct tokens of an entry's text.
TokenSet(entry) == Range(Tokenize(entry.text))

\* C1: whenever built is true there is one weight vector and one norm per
\* entry, in entry order, the keys of the i-th vector are exactly the distinct
\* tokens of the i-th entry's text, and the document frequency of every token
\* is the number of current entries whose text contains it.
C1_BuiltIsConsistent ==
    built =>
        /\ Len(embeddings) = Len(entries)
        /\ Len(norms) = Len(entries)
        /\ \A i \in DOMAIN entries : DOMAIN embeddings[i] = TokenSet(entries[i])
        /\ \A t \in DOMAIN doc_freq \cup UNION {TokenSet(entries[i]) : i \in DOMAIN entries} :
               Count(doc_freq, t) = Cardinality({i \in DOMAIN entries : t \in TokenSet(entries[i])})

\* A built index of three entries, rebuilt by a search after an add_entry, in
\* which one entry repeats a token and the frequencies differ between tokens.
C1_Witness ==
    /\ built
    /\ last.op = "search"
    /\ last.prev_add_on_built
    /\ Len(entries) = 3
    /\ \E i \in DOMAIN entries : entries[i].text = TextOakOakOak
    /\ Count(doc_freq, Oak) = 2
    /\ Count(doc_freq, Coal) = 1

\* C2: add_entry appends the entry at the end of the entry sequence, leaves
\* the index dirty, and recomputes nothing: document frequencies, weight
\* vectors and norms are as before the call.
C2_AddEntryFrame ==
    [][last'.op = "add_entry" =>
          /\ Len(entries') = Len(entries) + 1
          /\ SubSeq(entries', 1, Len(entries)) = entries
          /\ entries'[Len(entries')] \in EntryPool
          /\ built' = FALSE
          /\ doc_freq' = doc_freq
          /\ embeddings' = embeddings
          /\ norms' = norms]_vars

\* After add_entry on a built, non-empty index: dirty, and the vectors are
\* still those of the shorter entry list.
C2_Witness ==
    /\ last.op = "add_entry"
    /\ last.was_built
    /\ ~built
    /\ Len(entries) >= 2
    /\ Len(embeddings) = Len(entries) - 1
    /\ doc_freq # EmptyCounter

\* C3: a search with an empty or whitespace-only query returns the empty
\* sequence, does not raise and does not rebuild: built, document frequencies,
\* weight vectors, norms and entries are unchanged, whatever top_k and the
\* state of the index.
C3_BlankQueryFrame ==
    [][(last'.op = "search" /\ \A i \in DOMAIN last'.query : last'.query[i] \in Whitespace) =>
          /\ result' = <<>>
          /\ raised' = FALSE
          /\ built' = built
          /\ doc_freq' = doc_freq
          /\ embeddings' = embeddings
          /\ norms' = norms
          /\ entries' = entries]_vars

\* A whitespace-only search on a dirty, non-empty index that stayed dirty.
C3_Witness ==
    /\ last.op = "search"
    /\ last.query = <<" ", "\t">>
    /\ last.top_k > 0
    /\ ~last.was_built
    /\ ~built
    /\ entries # <<>>
    /\ embeddings = <<>>
    /\ result = <<>>

\* C4: on a non-empty corpus, for every query and every positive top_k,
\* search does not raise and returns at most top_k results with scores in
\* non-increasing order.
C4_AtMostTopKSorted ==
    (last.op = "search" /\ entries # <<>> /\ last.top_k > 0) =>
        /\ ~raised
        /\ Len(result) <= last.top_k
        /\ \A i, j \in DOMAIN result : i < j => RLeq(result[j].score, result[i].score)

\* A search that cut three scored entries down to two, with strictly
\* decreasing scores, the best of them not the first entry.
C4_Witness ==
    /\ last.op = "search"
    /\ Len(entries) = 3
    /\ last.top_k = 2
    /\ Len(result) = 2
    /\ RLess(result[2].score, result[1].score)
    /\ RLess(Zero, result[2].score)
    /\ result[1].pos # 1

\* C5 (as claimed): for every non-positive top_k, every non-blank query and
\* every corpus, search returns the empty sequence and does not raise.
C5_NonPositiveTopKEmpty ==
    (last.op = "search" /\ last.top_k <= 0
        /\ \E i \in DOMAIN last.query : last.query[i] \notin Whitespace) =>
        (result = <<>> /\ ~raised)

\* C6 (as claimed): on the corpus of the one entry "oak oak oak", search("oak")
\* returns exactly one result and its score is 1.0.
C6_SelfScoreIsOne ==
    (last.op = "search" /\ last.query = Oak /\ last.top_k >= 1
        /\ Len(entries) = 1 /\ entries[1].text = TextOakOakOak) =>
        (Len(result) = 1 /\ result[1].score = One)

\* C6 (amended): on the corpus of the one entry "oak oak oak", search("oak")
\* returns exactly one result, that entry, and its score is 0: "oak" occurs in
\* every entry, so its idf is ln(2/2) = 0 and both vectors are zero.
C6_SelfScoreIsZero ==
    (last.op = "search" /\ last.query = Oak /\ last.top_k >= 1
        /\ Len(entries) = 1 /\ entries[1].text = TextOakOakOak) =>
        (~raised /\ Len(result) = 1 /\ result[1].pos = 1 /\ result[1].score = Zero)

\* search("oak") has answered on the corpus of the one entry "oak oak oak".
C6_Witness ==
    /\ last.op = "search"
    /\ last.query = Oak
    /\ last.top_k = 3
    /\ Len(entries) = 1
    /\ entries[1].text = TextOakOakOak
    /\ built
    /\ Len(result) = 1

\* C7: in a corpus of at least two entries, a query identical to one entry's
\* full text gives that entry a score greater than or equal to the score of
\* every other entry (read off a search that returned every entry).
C7_SelfIsMaximal ==
    (last.op = "search" /\ Len(entries) >= 2 /\ Len(result) = Len(entries)) =>
        \A a, b \in DOMAIN result :
            result[a].entry.text = last.query => RLeq(result[b].score, result[a].score)

\* A query identical to the second entry's text: that entry scores 1, another
\* entry scores strictly between 0 and 1.
C7_Witness ==
    /\ last.op = "search"
    /\ Len(entries) = 3
    /\ Len(result) = 3
    /\ entries[2].text = last.query
    /\ result[1].pos = 2
    /\ result[1].score = One
    /\ RLess(Zero, result[2].score)
    /\ RLess(result[2].score, One)

\* The number of entries of es whose text contains token t.
EntriesWith(es, t) == Cardinality({i \in DOMAIN es : t \in TokenSet(es[i])})

\* C8: the first search with a non-blank query after an add_entry(e) on a
\* built index rebuilds before scoring: the document frequencies and the
\* vectors (with N) are those of the entry list including e, and every entry,
\* e included, is a candidate of the result.
C8_SearchAfterAddRebuilds ==
    (last.op = "search" /\ last.prev_add_on_built
        /\ \E i \in DOMAIN last.query : last.query[i] \notin Whitespace) =>
        /\ built
        /\ \A t \in DOMAIN doc_freq \cup TokenSet(entries[Len(entries)]) :
               Count(doc_freq, t) = EntriesWith(entries, t)
        /\ embeddings = [i \in DOMAIN entries |-> Embedding(entries[i], Len(entries), doc_freq)]
        /\ Len(norms) = Len(entries)
        /\ ~raised
        /\ last.top_k >= Len(entries) => {result[k].pos : k \in DOMAIN result} = DOMAIN entries
        /\ last.top_k >= 1 => result # <<>>

\* After add_entry(e) on a built index of two entries, the search ranks the
\* first entry on top, where the same search on the two older entries alone
\* ranks the second on top; and e itself is returned.
C8_Witness ==
    /\ last.op = "search"
    /\ last.prev_add_on_built
    /\ ~last.was_built
    /\ Len(entries) = 3
    /\ Len(result) = 3
    /\ result[1].pos = 1
    /\ RLess(result[2].score, result[1].score)
    /\ LET old == SubSeq(entries, 1, 2)
           before == Ranking(last.query, old, BuildState(old)).scores
       IN  before[1].pos = 2 /\ RLess(before[2].score, before[1].score)

\* C9 (as claimed): a search on a dirty index always leaves it built, and only
\* build and search ever set built.
C9_SearchAlwaysBuilds ==
    [][/\ (last'.op = "search" /\ ~built) => built'
       /\ (~built /\ built') => last'.op \in {"build", "search"}]_vars

\* C9 (amended): a search with a non-blank query on a dirty index leaves it
\* built, a search with an empty or whitespace-only query leaves it dirty, and
\* only build and search ever set built.
C9_NonBlankSearchBuilds ==
    [][/\ (last'.op = "search" /\ ~built) =>
              (built' <=> \E i \in DOMAIN last'.query : last'.query[i] \notin Whitespace)
       /\ (~built /\ built') => last'.op \in {"build", "search"}]_vars

\* A search found a dirty, non-empty index and left it built.
C9_Witness ==
    /\ last.op = "search"
    /\ ~last.was_built
    /\ built
    /\ entries # <<>>
    /\ Len(embeddings) = Len(entries)

\* C10: on an index with zero entries, build() leaves document frequencies,
\* weight vectors and norms empty and built true, without raising; a search
\* with a non-blank query returns the empty sequence without raising and
\* leaves the index built.
C10_EmptyIndex ==
    /\ (entries = <<>> /\ last.op = "build") =>
           (doc_freq = EmptyCounter /\ embeddings = <<>> /\ norms = <<>> /\ built /\ ~raised)
    /\ (entries = <<>> /\ last.op = "search"
           /\ \E i \in DOMAIN last.query : last.query[i] \notin Whitespace) =>
           (result = <<>> /\ ~raised /\ built
               /\ doc_freq = EmptyCounter /\ embeddings = <<>> /\ norms = <<>>)

\* A non-blank search on a dirty index with zero entries has returned.
C10_Witness ==
    /\ entries = <<>>
    /\ last.op = "search"
    /\ last.query = Oak
    /\ last.top_k = 3
    /\ ~last.was_built
    /\ built
    /\ result = <<>>

(***************************************************************************)
(* C11: build() is idempotent: a build() that directly follows a build(),  *)
(* with no add_entry in between, leaves the document frequencies, the      *)
(* weight vectors, the norms and the built flag as the first call left     *)
(* them.                                                                   *)
(***************************************************************************)
C11_BuildIdempotent ==
    [][(last.op = "build" /\ last'.op = "build")
          => UNCHANGED <<doc_freq, embeddings, norms, built>>]_vars

\* a second build() in a row on an index whose entries share a token
C11_Witness ==
    /\ last.op = "build" /\ last.repeated /\ built
    /\ Len(entries) >= 2
    /\ \E t \in DOMAIN doc_freq : doc_freq[t] >= 2

\* The ASCII letters and digits, and the lower case of one of them.
AsciiWordChars == Range(UpperLetters) \cup Range(LowerLetters) \cup Digits

AsciiLower(s) == [i \in DOMAIN s |-> IF s[i] \in DOMAIN LowerOf THEN LowerOf[s[i]] ELSE s[i]]

\* The maximal runs of ASCII letters and digits of a text, as <<first, last>>.
AsciiRuns(text) ==
    {run \in (DOMAIN text) \X (DOMAIN text) :
        /\ run[1] <= run[2]
        /\ \A i \in run[1]..run[2] : text[i] \in AsciiWordChars
        /\ run[1] = 1 \/ text[run[1] - 1] \notin AsciiWordChars
        /\ run[2] = Len(text) \/ text[run[2] + 1] \notin AsciiWordChars}

(***************************************************************************)
(* C12: for every input string the tokenizer returns, in order, the        *)
(* maximal runs of ASCII letters and digits, lowercased; every character   *)
(* of every token is one of a-z, 0-9; no other character of the input      *)
(* appears in the output; the empty string yields the empty sequence.      *)
(***************************************************************************)
C12_TokensAreAsciiRuns ==
    output.op = "_tokenize" =>
        LET runs == AsciiRuns(input)
            tokens == output.tokens
        IN  /\ Len(tokens) = Cardinality(runs)
            /\ \A run \in runs :
                   tokens[1 + Cardinality({r \in runs : r[1] < run[1]})]
                       = AsciiLower(SubSeq(input, run[1], run[2]))
            /\ \A k \in DOMAIN tokens : \A i \in DOMAIN tokens[k] :
                   tokens[k][i] \in Range(LowerLetters) \cup Digits
            /\ (input = <<>> => tokens = <<>>)

\* The entry at position pos holds a token of the query that is not in every entry.
HasTellingToken(pos, query) ==
    \E t \in TokenSet(entries[pos]) \cap Range(Tokens(query)) :
        EntriesWith(entries, t) < Len(entries)

(***************************************************************************)
(* C13: on the corpus <<A, B>>, search("wooden shelter") returns A before  *)
(* B, with a strictly positive score for A and score 0 for B.  In general  *)
(* a returned entry that shares no token with the query has score 0, and   *)
(* every entry that holds a query token which does not occur in every      *)
(* entry is returned before it, with a positive score.                     *)
(***************************************************************************)
C13_SharedTokenRanksFirst ==
    (last.op = "search" /\ ~IsBlank(last.query) /\ ~raised) =>
        /\ (entries = <<EntryShelter, EntryFurnace>>
               /\ last.query = TextWoodenShelter /\ last.top_k >= 2) =>
              /\ Len(result) = 2
              /\ result[1].entry = EntryShelter /\ RLess(Zero, result[1].score)
              /\ result[2].entry = EntryFurnace /\ result[2].score = Zero
        /\ \A j \in DOMAIN result :
              (TokenSet(result[j].entry) \cap Range(Tokens(last.query)) = {}) =>
                  /\ result[j].score = Zero
                  /\ \A pos \in DOMAIN entries :
                         HasTellingToken(pos, last.query) =>
                             \E i \in 1..(j - 1) :
                                 /\ result[i].pos = pos
                                 /\ RLess(Zero, result[i].score)

\* search("wooden shelter") on <<A, B>> has returned both entries
C13_Witness ==
    /\ last.op = "search" /\ last.query = TextWoodenShelter /\ last.top_k = 2
    /\ entries = <<EntryShelter, EntryFurnace>>
    /\ Len(result) = 2
    /\ result[1].entry.key = "A" /\ result[1].score = Rat(2, 7)
    /\ result[2].entry.key = "B"

\* The score of every entry for a query, in entry order, from the index as it is.
ScoresNow(query) ==
    LET query_vec == VectorizeQuery(query, entries, doc_freq)
    IN  Scores(query_vec, QueryNorm(query_vec), entries, embeddings, norms)

Min(a, b) == IF a <= b THEN a ELSE b

(***************************************************************************)
(* C14: for a positive top_k the results are the top_k best of all         *)
(* entries: each result carries the score of the entry it refers to, no    *)
(* entry left out has a score strictly greater than a returned entry's,    *)
(* and with top_k = 1 on pairwise distinct scores the single result is the *)
(* entry with the highest score.                                           *)
(***************************************************************************)
C14_TopKAreBest ==
    (last.op = "search" /\ ~IsBlank(last.query) /\ last.top_k > 0 /\ ~raised) =>
        LET all == ScoresNow(last.query)
            kept == {result[i].pos : i \in DOMAIN result}
        IN  /\ Len(result) = Min(last.top_k, Len(entries))
            /\ \A i \in DOMAIN result :
                   /\ result[i].pos \in DOMAIN all
                   /\ result[i].score = all[result[i].pos].score
                   /\ result[i].entry = entries[result[i].pos]
            /\ \A p \in DOMAIN all \ kept : \A i \in DOMAIN result :
                   ~RLess(result[i].score, all[p].score)
            /\ (/\ last.top_k = 1
                /\ entries # <<>>
                /\ \A p, q \in DOMAIN all : p # q => all[p].score # all[q].score) =>
                   \A p \in DOMAIN all \ {result[1].pos} :
                       RLess(all[p].score, result[1].score)

\* top_k = 1 on three pairwise distinct scores, the best being the last entry
C14_Witness ==
    /\ last.op = "search" /\ last.top_k = 1 /\ ~raised
    /\ Len(entries) = 3 /\ built
    /\ Len(result) = 1 /\ result[1].pos = 3
    /\ LET all == ScoresNow(last.query)
       IN  /\ \A p, q \in DOMAIN all : p # q => all[p].score # all[q].score
           /\ RLess(Zero, all[1].score)

(***************************************************************************)
(* C15: entries with equal scores appear in the result in insertion order: *)
(* of two returned entries with the same score the one added earlier comes *)
(* first, and of the entries whose score equals that of a returned entry   *)
(* the ones left out at the top_k cut-off were all added later.            *)
(***************************************************************************)
C15_TiesInInsertionOrder ==
    (last.op = "search" /\ ~IsBlank(last.query) /\ ~raised) =>
        LET all == ScoresNow(last.query)
            kept == {result[i].pos : i \in DOMAIN result}
        IN  /\ \A i, j \in DOMAIN result :
                   (i < j /\ result[i].score = result[j].score) =>
                       result[i].pos < result[j].pos
            /\ \A p \in DOMAIN all \ kept : \A i \in DOMAIN result :
                   all[p].score = result[i].score => result[i].pos < p

\* two entries tie with a positive score at the cut-off and the earlier one is kept
C15_Witness ==
    /\ last.op = "search" /\ last.top_k = 1 /\ ~raised
    /\ Len(result) = 1 /\ RLess(Zero, result[1].score)
    /\ \E p \in DOMAIN entries :
           /\ result[1].pos < p
           /\ ScoresNow(last.query)[p].score = result[1].score

\* The first required field a JSON object lacks, "" when it has all three.
FirstMissing(data) ==
    IF data.name = "absent" THEN "name"
    ELSE IF data.goal = "absent" THEN "goal"
    ELSE IF data.steps = "absent" THEN "steps"
    ELSE ""

LacksField(data) == data.kind = "object" /\ FirstMissing(data) # ""

(***************************************************************************)
(* C16: load_recipe_file on a recipe document (a JSON object) that lacks a *)
(* required top-level field raises RecipeValidationError whose message     *)
(* names the first missing field of name, goal, steps as 'recipe.<field>', *)
(* and returns no Recipe.  load_recipes_from_dir on a directory holding    *)
(* such a document returns no list: it raises, and when that document is   *)
(* the first one that fails to load it raises that same error.             *)
(***************************************************************************)
C16_MissingFieldRaises ==
    /\ (output.op = "load_recipe_file" /\ LacksField(input.files[output.path])) =>
           /\ output.outcome.raised = "RecipeValidationError"
           /\ output.outcome.message
                  = <<"missing required field", "recipe", FirstMissing(input.files[output.path])>>
           /\ output.outcome.path = output.path
    /\ (output.op = "load_recipes_from_dir"
           /\ \E p \in DOMAIN input.files : LacksField(input.files[p])) =>
           /\ output.outcome.raised # "none"
           /\ \A p \in DOMAIN input.files :
                  (/\ LacksField(input.files[p])
                   /\ \A q \in 1..(p - 1) : LoadRecipeFile(input.files[q], q).raised = "none") =>
                      /\ output.outcome.raised = "RecipeValidationError"
                      /\ output.outcome.message
                             = <<"missing required field", "recipe", FirstMissing(input.files[p])>>
                      /\ output.outcome.path = p

\* load_recipes_from_dir has met a document without goal and steps after a
\* document that loads
C16_Witness ==
    /\ output.op = "load_recipes_from_dir"
    /\ Len(input.files) = 2
    /\ LoadRecipeFile(input.files[1], 1).raised = "none"
    /\ input.files[2].kind = "object" /\ input.files[2].name = "valid"
    /\ input.files[2].goal = "absent" /\ input.files[2].steps = "absent"
    /\ output.outcome.raised = "RecipeValidationError"
    /\ output.outcome.message = <<"missing required field", "recipe", "goal">>

(***************************************************************************)
(* C17: search never filters by score: for a non-blank query, a non-empty  *)
(* corpus of N entries and top_k >= 1 it does not raise and returns        *)
(* exactly min(top_k, N) results, each referring to a different entry      *)
(* position, also when every score is 0 and when the query holds no        *)
(* alphanumeric token.                                                     *)
(***************************************************************************)
C17_NoScoreFilter ==
    (last.op = "search" /\ ~IsBlank(last.query) /\ entries # <<>> /\ last.top_k >= 1) =>
        /\ ~raised
        /\ Len(result) = Min(last.top_k, Len(entries))
        /\ \A i \in DOMAIN result : result[i].pos \in DOMAIN entries
        /\ \A i, j \in DOMAIN result : i # j => result[i].pos # result[j].pos

\* search("!!!", top_k = 2) on three entries has returned two results of score 0
C17_Witness ==
    /\ last.op = "search" /\ last.query = <<"!", "!", "!">> /\ last.top_k = 2
    /\ Tokens(last.query) = <<>>
    /\ Len(entries) = 3
    /\ ~raised
    /\ Len(result) = 2
    /\ \A i \in DOMAIN result : result[i].score = Zero

(***************************************************************************)
(* C18: a search on an index that is already built leaves entries,         *)
(* document frequencies, weight vectors, norms and the built flag          *)
(* unchanged; a search that directly follows a search with the same query  *)
(* and top_k returns the same results (keys and scores, in the same        *)
(* order); neither build nor search removes, reorders or alters an entry.  *)
(***************************************************************************)
C18_SearchReadOnly ==
    [][/\ (last'.op = "search" /\ built) =>
              UNCHANGED <<entries, doc_freq, embeddings, norms, built>>
       /\ (last'.op = "search" /\ last.op = "search"
              /\ last'.query = last.query /\ last'.top_k = last.top_k) =>
              (result' = result /\ raised' = raised)
       /\ (last'.op \in {"build", "search"}) => entries' = entries]_vars

\* the same non-blank search twice in a row, the second one on the built
\* index, with two results of different positive scores
C18_Witness ==
    /\ last.op = "search" /\ last.repeated /\ last.was_built /\ built
    /\ ~IsBlank(last.query)
    /\ Len(result) >= 2
    /\ RLess(Zero, result[2].score) /\ RLess(result[2].score, result[1].score)

(***************************************************************************)
(* C19: after build() every stored norm is non-zero: a computed norm of    *)
(* exactly 0 (e.g. of an entry with empty or token-free text) is stored as *)
(* 1.0, any other as computed; and an entry whose computed norm is 0 has   *)
(* score 0 in every search result.                                         *)
(***************************************************************************)
C19_NormsNonZero ==
    /\ built =>
           \A i \in DOMAIN norms :
               /\ norms[i] # Zero
               /\ norms[i] = (IF VectorNorm(embeddings[i]) = Zero THEN One
                              ELSE VectorNorm(embeddings[i]))
    /\ (last.op = "search" /\ built /\ ~raised) =>
           \A i \in DOMAIN result :
               VectorNorm(embeddings[result[i].pos]) = Zero => result[i].score = Zero

\* a search has ranked an entry of computed norm 0 (stored 1.0) below an entry
\* with a positive score
C19_Witness ==
    /\ last.op = "search" /\ built /\ ~raised
    /\ Len(result) >= 2
    /\ RLess(Zero, result[1].score)
    /\ \E i \in DOMAIN result :
           /\ Tokens(result[i].entry.text) = <<>>
           /\ VectorNorm(embeddings[result[i].pos]) = Zero
           /\ norms[result[i].pos] = One
           /\ result[i].score = Zero

(***************************************************************************)
(* C20: in every state reachable through add_entry, build and search every *)
(* stored document frequency is at most the number of entries N, so every  *)
(* entry weight and every query weight is non-negative, and every score    *)
(* search returns is >= 0.                                                 *)
(***************************************************************************)
C20_NothingNegative ==
    /\ \A t \in DOMAIN doc_freq : doc_freq[t] >= 1 /\ doc_freq[t] <= Len(entries)
    /\ \A i \in DOMAIN embeddings : \A t \in DOMAIN embeddings[i] :
           RLeq(Zero, embeddings[i][t])
    /\ (last.op = "search" /\ ~IsBlank(last.query)) =>
           LET query_vec == VectorizeQuery(last.query, entries, doc_freq)
           IN  \A t \in DOMAIN query_vec : RLeq(Zero, query_vec[t])
    /\ \A i \in DOMAIN result : RLeq(Zero, result[i].score)

\* a search on three entries in which one token occurs in every entry (weight
\* 0) and the best result has a positive score
C20_Witness ==
    /\ last.op = "search" /\ built /\ ~raised
    /\ Len(entries) = 3
    /\ \E t \in DOMAIN doc_freq : doc_freq[t] = Len(entries) /\ embeddings[1][t] = Zero
    /\ Len(result) = 3
    /\ RLess(Zero, result[1].score)

(***************************************************************************)
(* C21: when recipes of a library share a name, top_recipes and            *)
(* retrieve_planning_knowledge resolve every search result of that key to  *)
(* the last recipe added with the name: the returned list holds, in        *)
(* search-result order, the last recipe of each result's key (so it may    *)
(* hold that recipe more than once), never an earlier recipe of the name,  *)
(* and it is no longer than the search result.                             *)
(***************************************************************************)
Named(name) == {i \in DOMAIN recipes : recipes[i].name = name}

LastNamed(name) == CHOOSE i \in Named(name) : \A j \in Named(name) : j <= i

\* What the call returns for a recipe: the recipe itself, or its fact.
Returned(recipe) ==
    IF output.op = "top_recipes" THEN recipe
    ELSE FormatRecipeFact(recipe, output.max_steps)

ReturnedList == IF output.op = "top_recipes" THEN output.value ELSE output.facts

C21_LastRecipeOfName ==
    output.op \in {"top_recipes", "retrieve_planning_knowledge"} =>
        LET hits == SelectSeq(result, LAMBDA r : Named(r.entry.key) # {})
        IN  /\ Len(ReturnedList) <= Len(result)
            /\ Len(ReturnedList) = Len(hits)
            /\ \A i \in DOMAIN hits :
                   ReturnedList[i] = Returned(recipes[LastNamed(hits[i].entry.key)])
            /\ \A i \in DOMAIN ReturnedList, j \in DOMAIN recipes :
                   recipes[j] # recipes[LastNamed(recipes[j].name)]
                       => ReturnedList[i] # Returned(recipes[j])

\* top_recipes on a library with two different recipes of one name returned
\* the later one twice.
C21_Witness ==
    /\ output.op = "top_recipes"
    /\ Len(output.value) >= 2
    /\ output.value[1] = output.value[2]
    /\ result[1].entry.key = result[2].entry.key
    /\ \E i, j \in DOMAIN recipes :
           /\ i < j
           /\ recipes[i].name = recipes[j].name
           /\ recipes[i] # recipes[j]
           /\ output.value[1] = recipes[j]

(***************************************************************************)
(* C22: run_case searches the library for the normalized prompt with the   *)
(* case's own top_k when it has one and default_top_k otherwise;           *)
(* missing_good is the keys of expect_good that the search did not return, *)
(* retrieved_bad the keys of expect_bad that it did return, and the case   *)
(* passed exactly when every expect_good key and no expect_bad key is      *)
(* among the returned keys.                                                *)
(***************************************************************************)
RetrievedKeys == {result[i].entry.key : i \in DOMAIN result}

C22_RunCaseVerdict ==
    output.op = "run_case" =>
        LET case == output.case
        IN  /\ last.op = "search"
            /\ last.query = output.normalized_prompt
            /\ output.normalized_prompt = NormalizePrompt(case.prompt)
            /\ last.top_k = (IF case.top_k # <<>> THEN case.top_k[1]
                             ELSE output.default_top_k)
            /\ ~IsBlank(last.query) =>
                   result = Answer(last.query, last.top_k, entries, Current).result
            /\ output.retrieved = [i \in DOMAIN result |-> result[i].entry.key]
            /\ output.missing_good =
                   SelectSeq(case.expect_good, LAMBDA name : name \notin RetrievedKeys)
            /\ output.retrieved_bad =
                   SelectSeq(case.expect_bad, LAMBDA name : name \in RetrievedKeys)
            /\ output.passed <=>
                   /\ \A i \in DOMAIN case.expect_good : case.expect_good[i] \in RetrievedKeys
                   /\ \A i \in DOMAIN case.expect_bad : case.expect_bad[i] \notin RetrievedKeys

\* A case with its own top_k of 1, run with a larger default on a library of
\* several recipes: one key came back, two good keys are missing, one bad key
\* was retrieved, and the case did not pass.
C22_Witness ==
    /\ output.op = "run_case"
    /\ output.case.top_k = <<1>>
    /\ output.default_top_k > 1
    /\ Len(entries) > 1
    /\ output.retrieved = <<"torch">>
    /\ output.missing_good = <<"furnace", "anvil">>
    /\ output.retrieved_bad = <<"torch">>
    /\ ~output.passed

(***************************************************************************)
(* C23: after the RecipeLibrary constructor and after any add_recipe,      *)
(* search, top_recipes (and the two callers' searches), the index is built *)
(* on the present entries, the entry list is as long as the recipe list    *)
(* and the i-th entry's key is the i-th recipe's name; a search of the     *)
(* library always found the index built.                                   *)
(***************************************************************************)
C23_LibraryIndexAligned ==
    /\ built
    /\ Current = BuildState(entries)
    /\ Len(entries) = Len(recipes)
    /\ \A i \in DOMAIN recipes : entries[i].key = recipes[i].name
    /\ last.op = "search" => last.was_built

\* add_recipe has just added a recipe to a library that already had one.
C23_Witness ==
    /\ output.op = "add_recipe"
    /\ Len(recipes) >= 2
    /\ built
    /\ entries[Len(entries)] = AsEntry(recipes[Len(recipes)])

(***************************************************************************)
(* C24: in a built index a token that occurs in every entry (df = N) has   *)
(* weight 0 in every entry vector and in the query vector; so on an index  *)
(* of exactly one entry every search gives that entry the score 0, and a   *)
(* query made only of such tokens returns the first min(top_k, N) entries  *)
(* in insertion order, all with score 0.                                   *)
(***************************************************************************)
\* The tokens with df = N.
TokensOfEveryEntry == {t \in DOMAIN doc_freq : doc_freq[t] = Len(entries)}

\* The query vector of the search that has just answered.
LastQueryVector == VectorizeQuery(last.query, entries, doc_freq)

ZeroWeightInEveryVector ==
    (built /\ entries # <<>>) =>
        \A t \in TokensOfEveryEntry :
            /\ \A i \in DOMAIN embeddings :
                   t \in DOMAIN embeddings[i] /\ embeddings[i][t] = Zero
            /\ (last.op = "search" /\ t \in DOMAIN LastQueryVector)
                   => LastQueryVector[t] = Zero

OneEntryScoresZero ==
    (last.op = "search" /\ built /\ Len(entries) = 1) =>
        /\ ~raised
        /\ \A i \in DOMAIN result : result[i].score = Zero
        /\ (~IsBlank(last.query) /\ last.top_k >= 1) => Len(result) = 1

\* The query of the last search has a token, and each of its tokens has df = N.
QueryOfSharedTokensOnly ==
    /\ last.op = "search"
    /\ built
    /\ Tokens(last.query) # <<>>
    /\ Range(Tokens(last.query)) \subseteq TokensOfEveryEntry

\* min(top_k, N) entries; no entry when that is not positive.
FirstEntriesAtZero(count) ==
    /\ ~raised
    /\ Len(result) = (IF count < 0 THEN 0 ELSE count)
    /\ \A i \in DOMAIN result :
           result[i].pos = i /\ result[i].entry = entries[i] /\ result[i].score = Zero

C24_SharedTokensScoreNothing ==
    /\ ZeroWeightInEveryVector
    /\ OneEntryScoresZero
    /\ QueryOfSharedTokensOnly => FirstEntriesAtZero(Min(last.top_k, Len(entries)))

====
